---- MODULE Spec2Model ----
(***************************************************************************)
(* nbgrader/dbutil.py: write a temporary alembic.ini from the packaged     *)
(* template and run the alembic command line tool with it.                 *)
(*                                                                         *)
(* Text (file contents, connection strings, paths of the package) is a     *)
(* sequence of tokens: a token is a brace "{" or "}" or a run of other     *)
(* characters.  str.format only gives a meaning to braces and to the field *)
(* names between them, so this is the granularity it works at.             *)
(*                                                                         *)
(* Every caller p runs one call at a time; pc[p] is the statement it is    *)
(* about to execute.  The file system (dirs, files, template) is shared.   *)
(***************************************************************************)
EXTENDS Integers, Sequences, FiniteSets, TLC

(* ------------------------------ bounds --------------------------------- *)
\* callers that may be inside dbutil at the same time (processes or threads)
NumProcs == 2

Procs == 1..NumProcs
\* the names tempfile.mkdtemp can hand out: as many as can be in use at once,
\* so a caller always finds a free one
TempDirs == { <<"tmp", i>> : i \in 1..NumProcs }

(* --------------------------- module constants -------------------------- *)
\* os.path.join(_here, 'alembic')
ALEMBIC_DIR == <<"/site-packages/nbgrader", "/", "alembic">>
\* the default of write_alembic_ini's db_url and the literal of _alembic
DefaultDbUrl == <<"sqlite:///gradebook.db">>
\* the default of upgrade's revision
DefaultRevision == "head"
\* the default of write_alembic_ini's alembic_ini
DefaultIniName == "alembic.ini"

(* ------------------------------ inputs --------------------------------- *)
\* the alembic.ini shipped beside dbutil.py: text with the two named fields,
\* in either order, and no other brace
Templates ==
  { <<"[alembic] script_location = ", "{", "alembic_dir", "}",
      " sqlalchemy.url = ", "{", "db_url", "}",
      " [formatter_generic] format = %(levelname)-5.5s">>,
    <<"sqlalchemy.url = ", "{", "db_url", "}",
      " script_location = ", "{", "alembic_dir", "}">> }

\* connection strings; braces in them are data, not fields
DbUrls ==
  { DefaultDbUrl,
    <<"sqlite:///g.db">>,
    <<"postgresql://u:", "{", "alembic_dir", "}", "@h/", "{", "{", "db">> }

Omitted == "<omitted>"
Revisions == { "head", "50a4d84c131a" }
ArgLists == { <<>>, <<"current">>, <<"downgrade", "-1">> }

\* the working directory of a caller of write_alembic_ini
Cwd == <<"cwd", 0>>
UserPaths == { <<Cwd, DefaultIniName>>, <<Cwd, "old.ini">> }

\* exit codes of the alembic process
ExitCodes == { 0, 1, 2 }

NoFile == [exists |-> FALSE, data |-> <<>>]
File(text) == [exists |-> TRUE, data |-> text]
NoDir == <<"none", 0>>
NoPath == <<NoDir, "">>
NoText == <<>>
NoRevision == "<unset>"
NoCall == [fn |-> "none"]
NoExc == "none"

(* ------------------------------ state ---------------------------------- *)
VARIABLES
  callers,          \* the callers that use the module in this run
  template,         \* content of the file at ALEMBIC_INI_TEMPLATE_PATH
  dirs,             \* temporary directories that exist
  files,            \* path -> File(content), or NoFile
  pc,               \* per caller: the statement it is at
  call,             \* per caller: the function called and its actual arguments
  db_url,           \* per caller: parameter db_url
  revision,         \* per caller: parameter revision of upgrade
  args,             \* per caller: parameter args of _alembic
  td,               \* per caller: local td of _temp_alembic_ini
  alembic_ini,      \* per caller: the path being written / yielded
  alembic_ini_tpl,  \* per caller: local alembic_ini_tpl of write_alembic_ini
  argv,             \* per caller: argument vector given to check_call
  returncode,       \* per caller: <<exit code>> of the alembic process, <<>> before
  exc,              \* per caller: the exception in flight
  result,           \* per caller: what the caller observed
  steps             \* per caller: the I/O steps of the current call, in order

vars == << callers, template, dirs, files, pc, call, db_url, revision, args, td,
           alembic_ini, alembic_ini_tpl, argv, returncode, exc, result, steps >>

(* ------------------------------ paths ---------------------------------- *)
\* os.path.join(td, 'alembic.ini')
Join(d, name) == <<d, name>>

Paths == UserPaths \cup { Join(d, DefaultIniName) : d \in TempDirs }

(* ---------------------------- str.format ------------------------------- *)
Ok(text) == [err |-> NoExc, out |-> text]
Err(e) == [err |-> e, out |-> <<>>]
Emit(text, r) == IF r.err = NoExc THEN Ok(text \o r.out) ELSE r

\* index of the first "}" at or after position i, 0 when there is none
RECURSIVE Closing(_, _)
Closing(s, i) ==
  IF i > Len(s) THEN 0
  ELSE IF s[i] = "}" THEN i
  ELSE Closing(s, i + 1)

\* the keyword arguments of the format call of write_alembic_ini
Field(name, dir, url) ==
  IF name = <<"alembic_dir">> THEN Ok(dir)
  ELSE IF name = <<"db_url">> THEN Ok(url)
  ELSE IF name = <<>> THEN Err("IndexError")
  ELSE Err("KeyError")

\* s[i..].format(alembic_dir=dir, db_url=url): "{{" and "}}" are escapes,
\* "{name}" is a field, a lone brace is a ValueError; values are inserted as
\* they are and never scanned again
RECURSIVE FormatFrom(_, _, _, _)
FormatFrom(s, i, dir, url) ==
  IF i > Len(s) THEN Ok(<<>>)
  ELSE IF s[i] = "{" THEN
    IF i < Len(s) /\ s[i + 1] = "{" THEN Emit(<<"{">>, FormatFrom(s, i + 2, dir, url))
    ELSE LET j == Closing(s, i + 1) IN
         IF j = 0 THEN Err("ValueError")
         ELSE LET v == Field(SubSeq(s, i + 1, j - 1), dir, url) IN
              IF v.err # NoExc THEN v
              ELSE Emit(v.out, FormatFrom(s, j + 1, dir, url))
  ELSE IF s[i] = "}" THEN
    IF i < Len(s) /\ s[i + 1] = "}" THEN Emit(<<"}">>, FormatFrom(s, i + 2, dir, url))
    ELSE Err("ValueError")
  ELSE Emit(<<s[i]>>, FormatFrom(s, i + 1, dir, url))

\* fault: the connection string is pasted into the template first and the
\* result is formatted, so braces of the connection string are read as fields
FormatRescan(s, dir, url) ==
  LET first == FormatFrom(s, 1, <<"{", "alembic_dir", "}">>, url) IN
  IF first.err # NoExc THEN first ELSE FormatFrom(first.out, 1, dir, url)

Format(s, dir, url) == FormatFrom(s, 1, dir, url)

(* ------------------------------ Init ----------------------------------- *)
InitState ==
  /\ template \in Templates
  /\ dirs = {}
  /\ files = [f \in Paths |-> IF f = <<Cwd, "old.ini">> THEN File(<<"stale">>) ELSE NoFile]
  /\ pc = [p \in Procs |-> "idle"]
  /\ call = [p \in Procs |-> NoCall]
  /\ db_url = [p \in Procs |-> NoText]
  /\ revision = [p \in Procs |-> NoRevision]
  /\ args = [p \in Procs |-> <<>>]
  /\ td = [p \in Procs |-> NoDir]
  /\ alembic_ini = [p \in Procs |-> NoPath]
  /\ alembic_ini_tpl = [p \in Procs |-> NoText]
  /\ argv = [p \in Procs |-> <<>>]
  /\ returncode = [p \in Procs |-> <<>>]
  /\ exc = [p \in Procs |-> NoExc]
  /\ result = [p \in Procs |-> "none"]
  /\ steps = [p \in Procs |-> <<>>]

\* the module as the spec describes its use: one synchronous caller
Init == callers = {1} /\ InitState

\* several callers in flight at once
InitConc == callers = Procs /\ InitState

(* --------------------------- control flow ------------------------------ *)
\* steps records every I/O step a call attempts and, right after the step that
\* raised it, the exception
Step(p, names) == steps' = [steps EXCEPT ![p] = @ \o names]

\* fault: the error of write_alembic_ini is caught and another one is raised
RaiseInWriteConverted(p, name, e) ==
  /\ Step(p, <<name, e>>)
  /\ exc' = [exc EXCEPT ![p] = "RuntimeError"]
  /\ IF call[p].fn = "write_alembic_ini"
     THEN /\ pc' = [pc EXCEPT ![p] = "done"]
          /\ result' = [result EXCEPT ![p] = "RuntimeError"]
     ELSE /\ pc' = [pc EXCEPT ![p] = "finally"]
          /\ UNCHANGED result

\* fault: write_alembic_ini is called before the try block is entered
RaiseInWriteOutsideTry(p, name, e) ==
  /\ Step(p, <<name, e>>)
  /\ exc' = [exc EXCEPT ![p] = e]
  /\ pc' = [pc EXCEPT ![p] = "done"]
  /\ result' = [result EXCEPT ![p] = e]

\* step `name` of write_alembic_ini raises e: a direct caller gets it at once;
\* inside the try block of _temp_alembic_ini the finally clause runs first
RaiseInWrite(p, name, e) ==
  /\ Step(p, <<name, e>>)
  /\ exc' = [exc EXCEPT ![p] = e]
  /\ IF call[p].fn = "write_alembic_ini"
     THEN /\ pc' = [pc EXCEPT ![p] = "done"]
          /\ result' = [result EXCEPT ![p] = e]
     ELSE /\ pc' = [pc EXCEPT ![p] = "finally"]
          /\ UNCHANGED result

(* ------------------------------ callers -------------------------------- *)
\* write_alembic_ini(alembic_ini, db_url) called directly; either argument may
\* be left to its default
write_alembic_ini(p, path, url) ==
  /\ p \in callers /\ pc[p] = "idle"
  /\ call' = [call EXCEPT ![p] = [fn |-> "write_alembic_ini", alembic_ini |-> path, db_url |-> url]]
  /\ alembic_ini' = [alembic_ini EXCEPT ![p] = path]
  /\ db_url' = [db_url EXCEPT ![p] = url]
  /\ pc' = [pc EXCEPT ![p] = "open_template"]
  /\ UNCHANGED << callers, template, dirs, files, revision, args, td,
                  alembic_ini_tpl, argv, returncode, exc, result, steps >>

\* upgrade(db_url, revision='head'); rev = Omitted is the call without revision
upgrade(p, url, rev) ==
  /\ p \in callers /\ pc[p] = "idle"
  /\ call' = [call EXCEPT ![p] = [fn |-> "upgrade", db_url |-> url, revision |-> rev]]
  /\ db_url' = [db_url EXCEPT ![p] = url]
  /\ revision' = [revision EXCEPT ![p] = IF rev = Omitted THEN DefaultRevision ELSE rev]
  /\ pc' = [pc EXCEPT ![p] = "mkdtemp"]
  /\ UNCHANGED << callers, template, dirs, files, args, td, alembic_ini,
                  alembic_ini_tpl, argv, returncode, exc, result, steps >>

\* _alembic(*args)
_alembic(p, a) ==
  /\ p \in callers /\ pc[p] = "idle"
  /\ call' = [call EXCEPT ![p] = [fn |-> "_alembic", args |-> a]]
  /\ args' = [args EXCEPT ![p] = a]
  /\ db_url' = [db_url EXCEPT ![p] = DefaultDbUrl]
  /\ pc' = [pc EXCEPT ![p] = "mkdtemp"]
  /\ UNCHANGED << callers, template, dirs, files, revision, td, alembic_ini,
                  alembic_ini_tpl, argv, returncode, exc, result, steps >>

(* -------------------------- _temp_alembic_ini -------------------------- *)
\* fault: a fixed directory under the temporary root, made if it is missing
MkdtempFixedName(p) ==
  /\ pc[p] = "mkdtemp"
  /\ Step(p, <<"mkdtemp">>)
  /\ dirs' = dirs \cup { <<"tmp", 1>> }
  /\ td' = [td EXCEPT ![p] = <<"tmp", 1>>]
  /\ alembic_ini' = [alembic_ini EXCEPT ![p] = Join(<<"tmp", 1>>, DefaultIniName)]
  /\ pc' = [pc EXCEPT ![p] = "open_template"]
  /\ UNCHANGED << callers, template, files, call, db_url, revision, args,
                  alembic_ini_tpl, argv, returncode, exc, result >>

\* td = tempfile.mkdtemp(): a directory that did not exist; it is outside the
\* try block, so its failure reaches the caller with nothing to clean up
Mkdtemp(p) ==
  /\ pc[p] = "mkdtemp"
  /\ \/ \E d \in TempDirs \ dirs :
          /\ Step(p, <<"mkdtemp">>)
          /\ dirs' = dirs \cup {d}
          /\ td' = [td EXCEPT ![p] = d]
          /\ alembic_ini' = [alembic_ini EXCEPT ![p] = Join(d, DefaultIniName)]
          /\ pc' = [pc EXCEPT ![p] = "open_template"]
          /\ UNCHANGED << exc, result >>
     \/ /\ Step(p, <<"mkdtemp", "OSError(mkdtemp)">>)
        /\ exc' = [exc EXCEPT ![p] = "OSError(mkdtemp)"]
        /\ result' = [result EXCEPT ![p] = "OSError(mkdtemp)"]
        /\ pc' = [pc EXCEPT ![p] = "done"]
        /\ UNCHANGED << dirs, td, alembic_ini >>
  /\ UNCHANGED << callers, template, files, call, db_url, revision, args,
                  alembic_ini_tpl, argv, returncode >>

(* --------------------------- write_alembic_ini ------------------------- *)
\* with open(ALEMBIC_INI_TEMPLATE_PATH) as f: alembic_ini_tpl = f.read()
OpenTemplate(p) ==
  /\ pc[p] = "open_template"
  /\ \/ /\ Step(p, <<"open_template">>)
        /\ alembic_ini_tpl' = [alembic_ini_tpl EXCEPT ![p] = template]
        /\ pc' = [pc EXCEPT ![p] = "open_target"]
        /\ UNCHANGED << exc, result >>
     \/ /\ RaiseInWrite(p, "open_template", "OSError(template)")
        /\ UNCHANGED alembic_ini_tpl
  /\ UNCHANGED << callers, template, dirs, files, call, db_url, revision, args,
                  td, alembic_ini, argv, returncode >>

\* open(alembic_ini, 'w'): creates the file or truncates it; needs its directory
OpenTarget(p) ==
  /\ pc[p] = "open_target"
  /\ \/ /\ Step(p, <<"open_target">>)
        /\ alembic_ini[p][1] \in dirs \cup {Cwd}
        /\ files' = [files EXCEPT ![alembic_ini[p]] = File(<<>>)]
        /\ pc' = [pc EXCEPT ![p] = "write"]
        /\ UNCHANGED << exc, result >>
     \/ /\ RaiseInWrite(p, "open_target", "OSError(target)")
        /\ UNCHANGED files
  /\ UNCHANGED << callers, template, dirs, call, db_url, revision, args, td,
                  alembic_ini, alembic_ini_tpl, argv, returncode >>

\* fault: the text stays in the buffer of a file object that is not closed
WriteTargetUnflushed(p) ==
  /\ pc[p] = "write"
  /\ Step(p, <<"write">>)
  /\ IF call[p].fn = "write_alembic_ini"
     THEN /\ pc' = [pc EXCEPT ![p] = "done"]
          /\ result' = [result EXCEPT ![p] = "returned"]
     ELSE /\ pc' = [pc EXCEPT ![p] = "with_body"]
          /\ UNCHANGED result
  /\ UNCHANGED << callers, template, dirs, files, call, db_url, revision, args, td,
                  alembic_ini, alembic_ini_tpl, argv, returncode, exc >>

\* f.write(alembic_ini_tpl.format(alembic_dir=ALEMBIC_DIR, db_url=db_url)) and
\* the return: to the direct caller, or to the yield of _temp_alembic_ini
WriteTarget(p) ==
  /\ pc[p] = "write"
  /\ LET r == Format(alembic_ini_tpl[p], ALEMBIC_DIR, db_url[p]) IN
     IF r.err # NoExc
     THEN RaiseInWrite(p, "format", r.err) /\ UNCHANGED files
     ELSE /\ Step(p, <<"write">>)
          /\ files' = [files EXCEPT ![alembic_ini[p]] = File(@.data \o r.out)]
          /\ UNCHANGED exc
          /\ IF call[p].fn = "write_alembic_ini"
             THEN /\ pc' = [pc EXCEPT ![p] = "done"]
                  /\ result' = [result EXCEPT ![p] = "returned"]
             ELSE /\ pc' = [pc EXCEPT ![p] = "with_body"]
                  /\ UNCHANGED result
  /\ UNCHANGED << callers, template, dirs, call, db_url, revision, args, td,
                  alembic_ini, alembic_ini_tpl, argv, returncode >>

(* ----------------------------- check_call ------------------------------ *)
\* check_call(cmd): start the process, or fail to start it
CheckCall(p, cmd) ==
  /\ argv' = [argv EXCEPT ![p] = cmd]
  /\ \/ /\ Step(p, <<"check_call">>)
        /\ pc' = [pc EXCEPT ![p] = "running"]
        /\ UNCHANGED exc
     \/ /\ Step(p, <<"check_call", "OSError(exec)">>)
        /\ pc' = [pc EXCEPT ![p] = "finally"]
        /\ exc' = [exc EXCEPT ![p] = "OSError(exec)"]
  /\ UNCHANGED << callers, template, dirs, files, call, db_url, revision, args,
                  td, alembic_ini, alembic_ini_tpl, returncode, result >>

\* fault: the revision argument is ignored
UpgradeBodyHead(p) ==
  /\ pc[p] = "with_body" /\ call[p].fn = "upgrade"
  /\ CheckCall(p, <<"alembic", "-c", alembic_ini[p], "upgrade", "head">>)

\* the body of upgrade's with statement
UpgradeBody(p) ==
  /\ pc[p] = "with_body" /\ call[p].fn = "upgrade"
  /\ CheckCall(p, <<"alembic", "-c", alembic_ini[p], "upgrade", revision[p]>>)

\* fault: the arguments are not passed on
AlembicBodyNoArgs(p) ==
  /\ pc[p] = "with_body" /\ call[p].fn = "_alembic"
  /\ CheckCall(p, <<"alembic", "-c", alembic_ini[p]>>)

\* the body of _alembic's with statement
AlembicBody(p) ==
  /\ pc[p] = "with_body" /\ call[p].fn = "_alembic"
  /\ CheckCall(p, <<"alembic", "-c", alembic_ini[p]>> \o args[p])

\* fault: subprocess.call in place of check_call: the exit code is dropped
ToolExitUnchecked(p, code) ==
  /\ pc[p] = "running"
  /\ Step(p, <<"exit">>)
  /\ returncode' = [returncode EXCEPT ![p] = <<code>>]
  /\ pc' = [pc EXCEPT ![p] = "finally"]
  /\ UNCHANGED << callers, template, dirs, files, call, db_url, revision, args,
                  td, alembic_ini, alembic_ini_tpl, argv, result, exc >>

\* fault: the command is run again after a non-zero exit
ToolExitRetry(p, code) ==
  /\ pc[p] = "running"
  /\ Step(p, <<"exit">>)
  /\ returncode' = [returncode EXCEPT ![p] = <<code>>]
  /\ pc' = [pc EXCEPT ![p] = IF code = 0 THEN "finally" ELSE "with_body"]
  /\ UNCHANGED << callers, template, dirs, files, call, db_url, revision, args,
                  td, alembic_ini, alembic_ini_tpl, argv, result, exc >>

\* the process exits and check_call returns, or raises on a non-zero code
ToolExit(p, code) ==
  /\ pc[p] = "running"
  /\ Step(p, IF code = 0 THEN <<"exit">> ELSE <<"exit", "CalledProcessError">>)
  /\ returncode' = [returncode EXCEPT ![p] = <<code>>]
  /\ exc' = [exc EXCEPT ![p] = IF code = 0 THEN NoExc ELSE "CalledProcessError"]
  /\ pc' = [pc EXCEPT ![p] = "finally"]
  /\ UNCHANGED << callers, template, dirs, files, call, db_url, revision, args,
                  td, alembic_ini, alembic_ini_tpl, argv, result >>

(* ------------------------------ finally -------------------------------- *)
\* fault: no try/finally: rmtree only runs when the with body did not raise
RmtreeOnSuccess(p) ==
  /\ pc[p] = "finally"
  /\ IF exc[p] = NoExc
     THEN /\ Step(p, <<"rmtree">>)
          /\ dirs' = dirs \ {td[p]}
          /\ files' = [f \in Paths |-> IF f[1] = td[p] THEN NoFile ELSE files[f]]
     ELSE UNCHANGED << steps, dirs, files >>
  /\ result' = [result EXCEPT ![p] = IF exc[p] = NoExc THEN "returned" ELSE exc[p]]
  /\ pc' = [pc EXCEPT ![p] = "done"]
  /\ UNCHANGED << callers, template, call, db_url, revision, args, td,
                  alembic_ini, alembic_ini_tpl, argv, returncode, exc >>

\* finally: shutil.rmtree(td); then the with statement ends: the exception in
\* flight, if any, goes on to the caller.  The directory was made by this call
\* and holds only the file this call wrote; its removal is taken to succeed.
Rmtree(p) ==
  /\ pc[p] = "finally"
  /\ Step(p, <<"rmtree">>)
  /\ dirs' = dirs \ {td[p]}
  /\ files' = [f \in Paths |-> IF f[1] = td[p] THEN NoFile ELSE files[f]]
  /\ result' = [result EXCEPT ![p] = IF exc[p] = NoExc THEN "returned" ELSE exc[p]]
  /\ pc' = [pc EXCEPT ![p] = "done"]
  /\ UNCHANGED << callers, template, call, db_url, revision, args, td,
                  alembic_ini, alembic_ini_tpl, argv, returncode, exc >>

\* the caller has seen the outcome; the frame and its locals are gone
Return(p) ==
  /\ pc[p] = "done"
  /\ pc' = [pc EXCEPT ![p] = "idle"]
  /\ call' = [call EXCEPT ![p] = NoCall]
  /\ db_url' = [db_url EXCEPT ![p] = NoText]
  /\ revision' = [revision EXCEPT ![p] = NoRevision]
  /\ args' = [args EXCEPT ![p] = <<>>]
  /\ td' = [td EXCEPT ![p] = NoDir]
  /\ alembic_ini' = [alembic_ini EXCEPT ![p] = NoPath]
  /\ alembic_ini_tpl' = [alembic_ini_tpl EXCEPT ![p] = NoText]
  /\ argv' = [argv EXCEPT ![p] = <<>>]
  /\ returncode' = [returncode EXCEPT ![p] = <<>>]
  /\ exc' = [exc EXCEPT ![p] = NoExc]
  /\ result' = [result EXCEPT ![p] = "none"]
  /\ steps' = [steps EXCEPT ![p] = <<>>]
  /\ UNCHANGED << callers, template, dirs, files >>

(* ------------------------------- Next ---------------------------------- *)
Next ==
  \E p \in Procs :
    \/ \E path \in UserPaths, url \in DbUrls : write_alembic_ini(p, path, url)
    \/ \E url \in DbUrls, rev \in Revisions \cup {Omitted} : upgrade(p, url, rev)
    \/ \E a \in ArgLists : _alembic(p, a)
    \/ Mkdtemp(p)
    \/ OpenTemplate(p)
    \/ OpenTarget(p)
    \/ WriteTarget(p)
    \/ UpgradeBody(p)
    \/ AlembicBody(p)
    \/ \E code \in ExitCodes : ToolExit(p, code)
    \/ Rmtree(p)
    \/ Return(p)

Spec == Init /\ [][Next]_vars

\* the calls made when several callers are in flight: upgrades of a database
\* that is not the default one and ad hoc alembic commands (which use the
\* default one), every step free to interleave
ConcDbUrls == { <<"sqlite:///g.db">> }
ConcArgLists == { <<"current">> }

NextConc ==
  \E p \in Procs :
    \/ \E url \in ConcDbUrls : upgrade(p, url, Omitted)
    \/ \E a \in ConcArgLists : _alembic(p, a)
    \/ Mkdtemp(p)
    \/ OpenTemplate(p)
    \/ OpenTarget(p)
    \/ WriteTarget(p)
    \/ UpgradeBody(p)
    \/ AlembicBody(p)
    \/ \E code \in {0, 1} : ToolExit(p, code)
    \/ Rmtree(p)
    \/ Return(p)

SpecConc == InitConc /\ [][NextConc]_vars

(* ------------------------- what the claims use ------------------------ *)
\* the template with each of its two fields replaced and every other token
\* kept, written without reference to str.format
RECURSIVE SubstitutedFrom(_, _, _, _)
SubstitutedFrom(tpl, i, dir, url) ==
  IF i > Len(tpl) THEN <<>>
  ELSE IF i + 2 <= Len(tpl) /\ SubSeq(tpl, i, i + 2) = <<"{", "alembic_dir", "}">>
       THEN dir \o SubstitutedFrom(tpl, i + 3, dir, url)
  ELSE IF i + 2 <= Len(tpl) /\ SubSeq(tpl, i, i + 2) = <<"{", "db_url", "}">>
       THEN url \o SubstitutedFrom(tpl, i + 3, dir, url)
  ELSE <<tpl[i]>> \o SubstitutedFrom(tpl, i + 1, dir, url)

\* the complete configuration file for a connection string
Config(url) ==
  [exists |-> TRUE,
   data |-> SubstitutedFrom(template, 1, <<"/site-packages/nbgrader", "/", "alembic">>, url)]

Block(p) == call[p].fn \in {"upgrade", "_alembic"}
Has(p, name) == \E i \in 1..Len(steps[p]) : steps[p][i] = name
Count(p, name) == Cardinality({ i \in 1..Len(steps[p]) : steps[p][i] = name })

\* the I/O steps of a call in the order the claims give them
IOSteps == <<"mkdtemp", "open_template", "open_target", "write", "check_call",
             "exit", "rmtree">>
IsIOStep(e) == \E i \in 1..Len(IOSteps) : IOSteps[i] = e
Pos(e) == CHOOSE i \in 1..Len(IOSteps) : IOSteps[i] = e
Events(p) == SelectSeq(steps[p], IsIOStep)

WriteErrors == {"OSError(template)", "OSError(target)"}

\* between the creation of its directory and the end of its rmtree
InFlight(p) ==
  /\ Block(p)
  /\ pc[p] \in {"open_template", "open_target", "write", "with_body", "running", "finally"}

C2_UpgradeArgv ==
  \A p \in Procs :
    (call[p].fn = "upgrade" /\ Has(p, "check_call"))
      => /\ argv[p] = << "alembic", "-c", <<td[p], "alembic.ini">>, "upgrade",
                         IF call[p].revision = Omitted THEN "head"
                         ELSE call[p].revision >>
         /\ pc[p] = "running" => files[argv[p][3]] = Config(call[p].db_url)

C2_Witness ==
  \E p \in Procs :
    /\ call[p].fn = "upgrade" /\ pc[p] = "running"
    /\ call[p].revision = "50a4d84c131a"
    /\ call[p].db_url # DefaultDbUrl

C4_WrittenContent ==
  \A p \in Procs :
    \/ pc[p] = "done" /\ call[p].fn = "write_alembic_ini" /\ result[p] = "returned"
    \/ pc[p] = "with_body"
    => files[alembic_ini[p]] = Config(db_url[p])

C4_Witness ==
  \E p \in Procs :
    /\ pc[p] = "done" /\ result[p] = "returned"
    /\ call[p].fn = "write_alembic_ini"
    /\ call[p].alembic_ini = <<Cwd, "old.ini">>
    /\ \E i \in 1..Len(call[p].db_url) : call[p].db_url[i] = "{"

\* C5: _alembic gives check_call alembic -c <ini> followed by its arguments as
\* given, and <ini> holds the configuration for sqlite:///gradebook.db whatever
\* the arguments are.
C5_AlembicArgv ==
  \A p \in Procs :
    (call[p].fn = "_alembic" /\ Has(p, "check_call"))
      => /\ argv[p] = << "alembic", "-c", <<td[p], "alembic.ini">> >> \o call[p].args
         /\ pc[p] = "running"
              => files[argv[p][3]] = Config(<<"sqlite:///gradebook.db">>)

C5_Witness ==
  \E p \in Procs :
    /\ call[p].fn = "_alembic" /\ pc[p] = "running"
    /\ call[p].args = <<"downgrade", "-1">>

C7_StepOrder ==
  \A p \in Procs :
    Block(p) =>
      /\ LET ev == Events(p) IN
           /\ \A i \in 1..(Len(ev) - 1) : Pos(ev[i]) < Pos(ev[i + 1])
           /\ Has(p, "check_call") => SubSeq(ev, 1, 5) = SubSeq(IOSteps, 1, 5)
      /\ Has(p, "rmtree") => pc[p] = "done"
      /\ pc[p] = "running"
           => /\ td[p] \in dirs
              /\ argv[p][3] = <<td[p], "alembic.ini">>
              /\ files[argv[p][3]] = Config(db_url[p])

C7_Witness ==
  \E p, q \in Procs :
    /\ p # q
    /\ pc[p] = "running"
    /\ pc[q] = "done" /\ Has(q, "exit") /\ Has(q, "rmtree")

\* C8: one call of upgrade or _alembic calls check_call at most once, exactly
\* once when the configuration was written, and not again after the tool has
\* exited, whatever the exit code.
C8_SingleInvocation ==
  \A p \in Procs :
    Block(p) =>
      /\ Count(p, "check_call") <= 1
      /\ Has(p, "check_call") => Has(p, "write")
      /\ (Has(p, "write") /\ pc[p] \in {"running", "finally", "done"})
           => Count(p, "check_call") = 1
      /\ Has(p, "exit") => pc[p] \in {"finally", "done"}

C8_Witness ==
  \E p \in Procs :
    /\ pc[p] = "done" /\ Block(p)
    /\ returncode[p] = <<1>> /\ Count(p, "check_call") = 1

\* C9: invocations in flight at the same time have different temporary
\* directories; each writes to, passes and removes only its own, its directory
\* exists for as long as it is in flight, and its tool finds the configuration
\* of its own connection string.
C9_OwnDirectory ==
  \A p \in Procs :
    InFlight(p) =>
      /\ td[p] \in dirs
      /\ alembic_ini[p] = <<td[p], "alembic.ini">>
      /\ \A q \in Procs \ {p} : InFlight(q) => td[q] # td[p]
      /\ pc[p] \in {"with_body", "running"} => files[alembic_ini[p]] = Config(db_url[p])
      /\ pc[p] = "running" => argv[p][3] = alembic_ini[p]

C9_Witness ==
  \E p, q \in Procs :
    /\ pc[p] = "running" /\ pc[q] = "running"
    /\ db_url[p] # db_url[q]

====
